---- MODULE Spec2Model ----
(***************************************************************************)
(* The raycasting camera of engine/raycaster/Camera.go: the per-frame      *)
(* casting pipeline (raycast), its goroutines (level, floor and sprite     *)
(* tasks), the wall DDA (castLevel), the sprite sort (combSort), the       *)
(* sprite projection (castSprite) and the movement entry points (Move,     *)
(* Strafe).                                                                *)
(*                                                                         *)
(* float64 values are modelled as exact rationals <<n, d>> (d >= 0, in     *)
(* lowest terms; d = 0 is +Inf, -Inf or NaN), so the model computes what   *)
(* the code computes up to floating-point rounding.  Go's int(f) is        *)
(* truncation toward zero; on a non-finite f its result is                 *)
(* implementation-dependent and is modelled as a choice.                   *)
(***************************************************************************)
EXTENDS Integers, Sequences, FiniteSets, TLC

VARIABLES
    mapId,          \* which world the Map collaborator holds (c.mapObj)
    w, h,           \* c.w, c.h: the viewport
    pos, dir, plane,\* c.pos, c.dir, c.plane: records [X, Y] of rationals
    sprite,         \* c.sprite: 0..numSprites-1 -> [X, Y]
    zBuffer,        \* c.zBuffer: 0..w-1 -> rational
    zFrame,         \* history: the frame in which zBuffer[x] was last written
    lvls,           \* c.lvls: level -> column -> the slice castLevel wrote
    horWrites,      \* history: the pixels of c.horLvl.HorBuffer written this frame, with their writer
    spriteOrder,    \* c.spriteOrder
    spriteDistance, \* c.spriteDistance
    spriteLvls,     \* c.spriteLvls: slot -> Nil or a Level
    semaphore,      \* len(c.semaphore): permits held
    wg,             \* the frame's sync.WaitGroup counter
    pc,             \* the main goroutine: where it is in raycast
    spawn,          \* the loop index i of raycast's two spawn loops
    lt,             \* the asyncCastLevel goroutines
    ft,             \* the floor goroutines, by the castLevel call <<level, x>> that spawns them
    st,             \* the asyncCastSprite goroutines
    frame,          \* the number of the current frame (raycast call)
    moves,          \* Move and Strafe calls made so far
    call,           \* history: the last Move or Strafe call and the position it found
    crashed         \* a run-time panic (index out of range) has ended the program

vars == <<mapId, w, h, pos, dir, plane, sprite, zBuffer, zFrame, lvls, horWrites,
          spriteOrder, spriteDistance, spriteLvls, semaphore, wg, pc, spawn,
          lt, ft, st, frame, moves, call, crashed>>

-----------------------------------------------------------------------------
(* Rational arithmetic standing for float64.                               *)

\* The operations are functions, applied to the values of their operands.

Abs(n) == IF n < 0 THEN -n ELSE n

Sgn(n) == IF n < 0 THEN -1 ELSE IF n > 0 THEN 1 ELSE 0

gcd[a \in Nat, b \in Nat] == IF b = 0 THEN a ELSE gcd[b, a % b]

GCD(a, b) == gcd[a, b]

\* a float64: <<n, d>> is n/d in lowest terms with d >= 0;
\* x/0 is +Inf <<1,0>>, -Inf <<-1,0>>, NaN <<0,0>>
Float == Int \X Int

rat[n \in Int, d \in Int] ==
    IF d = 0 THEN <<Sgn(n), 0>>
    ELSE LET g == GCD(Abs(n), Abs(d))
             s == Sgn(d)
         IN  <<(s * n) \div g, Abs(d) \div g>>

Rat(n, d) == rat[n, d]

RInt(k) == <<k, 1>>

IsFinite(a) == a[2] # 0

IsNaN(a) == a[1] = 0 /\ a[2] = 0

rNeg[a \in Float] == <<-a[1], a[2]>>

RNeg(a) == rNeg[a]

rAbs[a \in Float] == <<Abs(a[1]), a[2]>>

RAbs(a) == rAbs[a]

rAdd[a \in Float, b \in Float] ==
    IF IsFinite(a) /\ IsFinite(b)
    THEN LET g == GCD(a[2], b[2])
         IN  Rat(a[1] * (b[2] \div g) + b[1] * (a[2] \div g), (a[2] \div g) * b[2])
    ELSE IF IsNaN(a) \/ IsNaN(b) THEN <<0, 0>>
    ELSE IF IsFinite(a) THEN b
    ELSE IF IsFinite(b) THEN a
    ELSE IF a = b THEN a ELSE <<0, 0>>

RAdd(a, b) == rAdd[a, b]

RSub(a, b) == RAdd(a, RNeg(b))

rMul[a \in Float, b \in Float] ==
    LET g1 == IF a[1] = 0 \/ b[2] = 0 THEN 1 ELSE GCD(Abs(a[1]), b[2])
        g2 == IF b[1] = 0 \/ a[2] = 0 THEN 1 ELSE GCD(Abs(b[1]), a[2])
    IN  Rat((a[1] \div g1) * (b[1] \div g2), (a[2] \div g2) * (b[2] \div g1))

RMul(a, b) == rMul[a, b]

\* 1/a; 1/0 is +Inf (the sign of a float zero is not modelled)
rInv[a \in Float] ==
    IF IsNaN(a) THEN a
    ELSE IF a[1] = 0 THEN <<1, 0>>
    ELSE <<Sgn(a[1]) * a[2], Abs(a[1])>>

RInv(a) == rInv[a]

RDiv(a, b) == RMul(a, RInv(b))

\* a < b as float64 compares: false when either is NaN
rLess[a \in Float, b \in Float] ==
    IF IsNaN(a) \/ IsNaN(b) THEN FALSE
    ELSE IF ~IsFinite(a) THEN a[1] < 0 /\ b # a
    ELSE IF ~IsFinite(b) THEN b[1] > 0
    ELSE LET g == GCD(a[2], b[2])
         IN  a[1] * (b[2] \div g) < b[1] * (a[2] \div g)

RLess(a, b) == rLess[a, b]

rLeq[a \in Float, b \in Float] == ~IsNaN(a) /\ ~IsNaN(b) /\ ~RLess(b, a)

RLeq(a, b) == rLeq[a, b]

\* Go's int(f) for a finite f: truncation toward zero
trunc[a \in Float] == Sgn(a[1]) * (Abs(a[1]) \div a[2])

Trunc(a) == trunc[a]

\* Go's integer division a / b (b # 0): truncation toward zero
iDiv[a \in Int, b \in Int] == Sgn(a) * Sgn(b) * (Abs(a) \div Abs(b))

IDiv(a, b) == iDiv[a, b]

Vec(x, y) == [X |-> x, Y |-> y]

-----------------------------------------------------------------------------
(* The Map collaborator: three 24x24 grids of cell codes and the sprites.  *)
(* 0 is empty, a positive code is a wall (texture id + 1).                 *)

\* the grid edge the boundary check of castLevel assumes
GridSize == 24

Cells == 0 .. GridSize - 1

Border(x, y) == x = 0 \/ y = 0 \/ x = GridSize - 1 \/ y = GridSize - 1

\* the worlds the model runs in
\*   "single": one wall block, cell (5,5)
\*   "east"  : one wall block, cell (5,4)
\*   "open"  : no wall at all
\*   "room"  : walls all around, pillars next to the start position
\*   "yard"  : as "room", with gaps in the surrounding wall
MapIds == {"single", "east", "open", "room", "yard"}

Pillar(x, y) ==
    IF x = 19 /\ y \in 9 .. 13 THEN 1 + (y % 5)
    ELSE IF x = 21 /\ y = 14 THEN 2
    ELSE IF x = 22 /\ y = 8 THEN 4
    ELSE 0

Gap(x, y) == (x = 0 /\ y \in {1, 2}) \/ (y = 0 /\ x \in {1, 2}) \/ (x = 23 /\ y = 12)

\* Map.getGrid()
worldMap(m, x, y) ==
    CASE m = "single" -> IF x = 5 /\ y = 5 THEN 1 ELSE 0
      [] m = "east"   -> IF x = 5 /\ y = 4 THEN 1 ELSE 0
      [] m = "open"   -> 0
      [] m = "room"   -> IF Border(x, y) THEN 1 ELSE Pillar(x, y)
      [] m = "yard"   -> IF Gap(x, y) THEN 0
                         ELSE IF Border(x, y) THEN 1
                         ELSE IF x \in {1, 2} /\ y = 3 THEN 2
                         ELSE Pillar(x, y)

\* Map.getGridMid()
midMap(m, x, y) ==
    CASE m \in {"single", "east", "open"} -> 0
      [] OTHER -> IF x = 21 /\ y = 11 THEN 2
                  ELSE IF x = 22 /\ y = 10 THEN 6
                  ELSE 0

\* Map.getGridUp()
upMap(m, x, y) ==
    CASE m \in {"single", "east", "open"} -> 0
      [] OTHER -> IF x = 21 /\ y = 11 THEN 1 ELSE 0

\* asyncCastLevel's choice of rMap, then grid[x][y]
rMap(levelNum, x, y) ==
    IF levelNum = 0 THEN worldMap(mapId, x, y)
    ELSE IF levelNum = 1 THEN midMap(mapId, x, y)
    ELSE upMap(mapId, x, y)

-----------------------------------------------------------------------------
(* castLevel: the wall caster of one column.                                *)

\* preCalcCamX: c.camX[x]
camX(x) == RSub(Rat(2 * x, w), RInt(1))

rayDirX(x) == RAdd(dir.X, RMul(plane.X, camX(x)))

rayDirY(x) == RAdd(dir.Y, RMul(plane.Y, camX(x)))

\* the locals of castLevel before the DDA loop (lines 237-281)
DDAStart(x) ==
    LET mX  == Trunc(pos.X)
        mY  == Trunc(pos.Y)
        rdX == rayDirX(x)
        rdY == rayDirY(x)
        ddX == RAbs(RInv(rdX))
        ddY == RAbs(RInv(rdY))
        sX  == IF RLess(rdX, RInt(0)) THEN -1 ELSE 1
        sY  == IF RLess(rdY, RInt(0)) THEN -1 ELSE 1
    IN  [ rayDirX |-> rdX, rayDirY |-> rdY,
          deltaDistX |-> ddX, deltaDistY |-> ddY,
          stepX |-> sX, stepY |-> sY,
          mapX |-> mX, mapY |-> mY,
          sideDistX |-> IF sX = -1
                        THEN RMul(RSub(pos.X, RInt(mX)), ddX)
                        ELSE RMul(RSub(RInt(mX + 1), pos.X), ddX),
          sideDistY |-> IF sY = -1
                        THEN RMul(RSub(pos.Y, RInt(mY)), ddY)
                        ELSE RMul(RSub(RInt(mY + 1), pos.Y), ddY),
          hit |-> 0, side |-> -1,
          visX |-> mX, visY |-> mY,   \* history: the cell visited, before clamping
          steps |-> 0 ]               \* history: loop iterations done

\* the boundary check of line 297
InBounds(mX, mY) == mX < GridSize /\ mY < GridSize /\ mX > 0 /\ mY > 0

\* lines 306-316
ClampCell(v) == IF v < 0 THEN 0 ELSE IF v > GridSize - 1 THEN GridSize - 1 ELSE v

\* one iteration of the DDA loop (lines 285-317)
DDAStep(s, levelNum) ==
    LET inX == RLess(s.sideDistX, s.sideDistY)
        mX  == IF inX THEN s.mapX + s.stepX ELSE s.mapX
        mY  == IF inX THEN s.mapY ELSE s.mapY + s.stepY
        in  == InBounds(mX, mY)
    IN  [ s EXCEPT
          !.mapX = IF in THEN mX ELSE ClampCell(mX),
          !.mapY = IF in THEN mY ELSE ClampCell(mY),
          !.sideDistX = IF inX THEN RAdd(s.sideDistX, s.deltaDistX) ELSE s.sideDistX,
          !.sideDistY = IF inX THEN s.sideDistY ELSE RAdd(s.sideDistY, s.deltaDistY),
          !.hit = IF in THEN (IF rMap(levelNum, mX, mY) > 0 THEN 1 ELSE 0) ELSE 2,
          !.side = IF inX THEN 0 ELSE 1,
          !.visX = mX, !.visY = mY,
          !.steps = s.steps + 1 ]

\* the DDA loop run to its end (each iteration's state is bound as a value
\* before the next iteration reads it)
RECURSIVE DDA(_, _)
DDA(s, levelNum) ==
    IF s.hit # 0 THEN s
    ELSE CHOOSE r \in {DDA(n, levelNum) : n \in {DDAStep(s, levelNum)}} : TRUE

\* perpWallDist with the two sides exchanged
perpWallDistSwapped(s) ==
    IF s.side # 0
    THEN RDiv(RAdd(RSub(RInt(s.mapX), pos.X), Rat(1 - s.stepX, 2)), s.rayDirX)
    ELSE RDiv(RAdd(RSub(RInt(s.mapY), pos.Y), Rat(1 - s.stepY, 2)), s.rayDirY)

\* perpWallDist (lines 321-325)
perpWallDist(s) ==
    IF s.side = 0
    THEN RDiv(RAdd(RSub(RInt(s.mapX), pos.X), Rat(1 - s.stepX, 2)), s.rayDirX)
    ELSE RDiv(RAdd(RSub(RInt(s.mapY), pos.Y), Rat(1 - s.stepY, 2)), s.rayDirY)

\* texNum (lines 339-357): the grid is indexed with the clamped cell
texNum(s, levelNum) ==
    LET t0 == rMap(levelNum, s.mapX, s.mapY) - 1
        t1 == IF t0 < 0 THEN 0 ELSE t0
        t2 == IF s.side # 0 THEN t1
              ELSE IF t1 = 3 THEN 4 ELSE IF t1 = 4 THEN 3 ELSE t1
    IN  IF s.side # 0 THEN t2
        ELSE IF t2 = 1 THEN 4 ELSE IF t2 = 2 THEN 3 ELSE t2

\* int(float64(c.h) / perpWallDist): the values a build can produce.  A zero
\* perpWallDist makes the quotient infinite and the conversion
\* implementation-dependent: a value far below or far above every row.
Huge == 1000000

lineHeights(perp) ==
    LET q == RDiv(RInt(h), perp)
    IN  IF IsFinite(q) THEN {Trunc(q)} ELSE {-Huge, Huge}

\* drawStart (line 331)
drawStartOf(lineHeight, levelNum) ==
    (IDiv(-lineHeight, 2) + IDiv(h, 2)) - lineHeight * levelNum

\* what castLevel stores in lvl for column x (lines 359-387; the texture
\* column and the tint do not bear on any index or branch and are left out)
Slice(drawStart, drawEnd, tex) == [Min |-> drawStart, Max |-> drawEnd, texNum |-> tex]

\* the floor goroutine's loop bounds (lines 421-423, 456): the rows it writes
FloorRows(drawEnd) ==
    LET from == IF drawEnd < 0 THEN h ELSE drawEnd
    IN  {y \in 0 .. h - 1 : y >= from + 1}

-----------------------------------------------------------------------------
(* The sprite sort.                                                         *)

numSprites == Cardinality(DOMAIN sprite)

Sq(a) == RMul(a, a)

\* line 186: the squared distance of sprite i from the camera
SqDist(i) == RAdd(Sq(RSub(pos.X, sprite[i].X)), Sq(RSub(pos.Y, sprite[i].Y)))

\* lines 653-659: the next gap
NextGap(gap) ==
    LET g == (gap * 10) \div 13
    IN  IF g = 9 \/ g = 10 THEN 11 ELSE IF g < 1 THEN 1 ELSE g

\* a swap test that sorts near to far
OutOfOrderAscending(a, b) == RLess(b, a)

\* the swap test of line 664
OutOfOrder(a, b) == RLess(a, b)

\* lines 662-670: one pass over the arrays with a fixed gap
RECURSIVE CombPass(_, _, _, _)
CombPass(sd, gap, i, amount) ==
    IF ~(i < amount - gap) THEN sd
    ELSE LET j == i + gap
             swap == [ order |-> [sd.order EXCEPT ![i] = sd.order[j], ![j] = sd.order[i]],
                       dist  |-> [sd.dist EXCEPT ![i] = sd.dist[j], ![j] = sd.dist[i]],
                       swapped |-> TRUE ]
         IN  CHOOSE r \in {CombPass(n, gap, i + 1, amount) :
                              n \in {IF OutOfOrder(sd.dist[i], sd.dist[j]) THEN swap ELSE sd}} : TRUE

\* lines 651-671: the outer loop
RECURSIVE CombLoop(_, _, _)
CombLoop(sd, gap, amount) ==
    IF ~(gap > 1 \/ sd.swapped) THEN sd
    ELSE CHOOSE r \in {CombLoop(n, g, amount) :
                          g \in {NextGap(gap)},
                          n \in {CombPass([sd EXCEPT !.swapped = FALSE], NextGap(gap), 0, amount)}} : TRUE

combSort(order, dist, amount) ==
    CombLoop([order |-> order, dist |-> dist, swapped |-> FALSE], amount, amount)

-----------------------------------------------------------------------------
(* castSprite: the projection of one sprite (slot i of the sorted order).   *)

\* c.texWidth, and the edge of the (square) sprite textures
texWidth == 8

\* spriteTex.Size(): the sprite textures are texWidth wide
spriteW == texWidth

\* cap(MakeSlices(spriteW, spriteH)): one slice per texture column
capSpriteSlices == spriteW

\* a nil *Level, and a Level made in frame f with slices written for cols
NilLevel == [alloc |-> 0, cols |-> {}]

spriteX(i) == RSub(sprite[spriteOrder[i]].X, pos.X)

spriteY(i) == RSub(sprite[spriteOrder[i]].Y, pos.Y)

\* line 521
invDet == RInv(RSub(RMul(plane.X, dir.Y), RMul(dir.X, plane.Y)))

\* line 523
transformX(i) == RMul(invDet, RSub(RMul(dir.Y, spriteX(i)), RMul(dir.X, spriteY(i))))

\* line 524
transformY(i) == RMul(invDet, RAdd(RMul(RNeg(plane.Y), spriteX(i)), RMul(plane.X, spriteY(i))))

\* line 526
spriteScreenX(i) ==
    Trunc(RMul(Rat(w, 2), RAdd(RInt(1), RDiv(transformX(i), transformY(i)))))

\* lines 535 and 547 (uDiv = vDiv = 1)
spriteHeight(i) == Trunc(RAbs(RDiv(RInt(h), transformY(i))))

spriteWidth(i) == Trunc(RAbs(RDiv(RInt(h), transformY(i))))

\* lines 537-544 (vMoveScreen = int(0.0 / transformY) = 0)
drawStartY(i) ==
    LET v == IDiv(-spriteHeight(i), 2) + IDiv(h, 2)
    IN  IF v < 0 THEN 0 ELSE v

drawEndY(i) ==
    LET v == IDiv(spriteHeight(i), 2) + IDiv(h, 2)
    IN  IF v >= h THEN h - 1 ELSE v

\* lines 548-556
drawStartX(i) ==
    LET v == IDiv(-spriteWidth(i), 2) + spriteScreenX(i)
    IN  IF v < 0 THEN 0 ELSE v

drawEndX(i) ==
    LET v == IDiv(spriteWidth(i), 2) + spriteScreenX(i)
    IN  IF v >= w THEN w - 1 ELSE v

\* the columns the loop of line 568 visits.  With transformY = 0 the box
\* comes from conversions of non-finite values and is any range of columns;
\* the loop then accepts none of them (see Accepts).
Stripes(i) ==
    IF transformY(i)[1] = 0 THEN {}
    ELSE {stripe \in 0 .. w - 1 : drawStartX(i) <= stripe /\ stripe < drawEndX(i)}

\* the depth test, condition 4 of line 574
Nearer(tY, z) == RLess(tY, z)

\* the left screen edge, condition 2 of line 574
OnScreenLeft(stripe) == stripe > 0

\* line 574
Accepts(i, stripe) ==
    /\ RLess(RInt(0), transformY(i))
    /\ OnScreenLeft(stripe)
    /\ stripe < w
    /\ Nearer(transformY(i), zBuffer[stripe])

\* line 584
spriteTexX(i, stripe) ==
    IDiv(IDiv(256 * (stripe - (IDiv(-spriteWidth(i), 2) + spriteScreenX(i))) * texWidth,
              spriteWidth(i)), 256)

\* lines 591-595
texStartY(i) ==
    LET d == drawStartY(i) * 256 - h * 128 + spriteHeight(i) * 128
    IN  IDiv(IDiv(d * texWidth, spriteHeight(i)), 256)

texEndY(i) ==
    LET d == (drawEndY(i) - 1) * 256 - h * 128 + spriteHeight(i) * 128
    IN  IDiv(IDiv(d * texWidth, spriteHeight(i)), 256)

\* the two `continue` tests (lines 586 and 597) passed
InTexture(i, stripe) ==
    /\ ~(spriteTexX(i, stripe) < 0 \/ spriteTexX(i, stripe) >= capSpriteSlices)
    /\ ~(texStartY(i) < 0 \/ texStartY(i) >= texEndY(i) \/ texEndY(i) >= texWidth)

\* the columns for which the loop body runs
AcceptedCols(i) == {stripe \in Stripes(i) : Accepts(i, stripe)}

\* the columns for which castSprite writes a slice (lines 602-622)
EmittedCols(i) == {stripe \in AcceptedCols(i) : InTexture(i, stripe)}

\* makeSpriteLevel: a new Level
makeSpriteLevel(i) == [alloc |-> frame, cols |-> {}]

\* clearSpriteLevel that leaves the slot as it was
keepSpriteLevel(old) == old

\* clearSpriteLevel, called when no column was accepted (lines 626-628)
clearSpriteLevel(old) == NilLevel

\* spriteLvls[i] when castSprite(i) returns
castSprite(i) ==
    IF AcceptedCols(i) # {}
    THEN [makeSpriteLevel(i) EXCEPT !.cols = EmittedCols(i)]
    ELSE clearSpriteLevel(spriteLvls[i])

-----------------------------------------------------------------------------
(* Bounds of the model.                                                     *)

\* cap(c.lvls): the stacked wall levels
NumLevels == 2

\* the viewport the frames are cast for: width and height handed to NewCamera
Viewports == {[w |-> 3, h |-> 8]}

\* frames cast (NewCamera's first raycast included) and movement calls made
MaxFrames == 2

MaxMoves == 1

\* the capacity of c.semaphore: maxConcurrent (100 in the source) scaled to
\* the model's number of tasks, so that tasks do wait for a permit
maxConcurrent == 2

Levels == 0 .. NumLevels - 1

Columns == 0 .. w - 1

Slots == 0 .. numSprites - 1

\* the castLevel calls of a frame, each of which may start a floor goroutine
FloorTasks == Levels \X Columns

\* the fields no operation but Rotate assigns after construction
world == <<mapId, w, h, dir, plane, sprite>>

-----------------------------------------------------------------------------
(* The goroutines of one frame.                                             *)

NoTask == [st |-> "none", x |-> 0, dda |-> << >>, res |-> << >>]

NoJob == [st |-> "none", drawEnd |-> 0]

NoCall == [fn |-> "none", speed |-> RInt(0), from |-> Vec(RInt(0), RInt(0))]

\* wg.Wait() that does not wait
WaitReturnsAtOnce == TRUE

\* wg.Wait() returns
WaitReturns == wg = 0

\* an acquire that takes no permit
AcquireSkipped(permits) == permits

\* c.semaphore <- struct{}{}
Acquire(permits) == permits + 1

\* a release that gives no permit back
ReleaseLeaks(permits) == permits

\* <-c.semaphore
Release(permits) == permits - 1

\* go c.asyncCastLevel(i, &wg): the level goroutine enters castLevel for x = 0
SpawnLevel ==
    /\ ~crashed /\ pc = "spawnLevels" /\ spawn < NumLevels
    /\ wg' = wg + 1
    /\ lt' = [lt EXCEPT ![spawn] = [st |-> "run", x |-> 0, dda |-> DDAStart(0), res |-> << >>]]
    /\ spawn' = spawn + 1
    /\ pc' = IF spawn + 1 < NumLevels THEN "spawnLevels" ELSE "waitLevels"
    /\ UNCHANGED <<world, pos, zBuffer, zFrame, lvls, horWrites, spriteOrder,
                   spriteDistance, spriteLvls, semaphore, ft, st, frame, moves, call, crashed>>

\* one iteration of the DDA loop in the level goroutine l
LevelDDAStep(l) ==
    /\ ~crashed /\ lt[l].st = "run" /\ lt[l].x < w /\ lt[l].dda.hit = 0
    /\ lt' = [lt EXCEPT ![l].dda = DDAStep(lt[l].dda, l)]
    /\ UNCHANGED <<world, pos, zBuffer, zFrame, lvls, horWrites, spriteOrder,
                   spriteDistance, spriteLvls, semaphore, wg, pc, spawn,
                   ft, st, frame, moves, call, crashed>>

\* every level casts the floor
CastsFloorEveryLevel(levelNum) == TRUE

\* which levels write the depth buffer and cast the floor (lines 413, 419)
CastsFloor(levelNum) == levelNum = 0

\* history: the locals of the castLevel call a level goroutine made last
ColumnResult(x, s, perp) ==
    [x |-> x, hit |-> s.hit, mapX |-> s.mapX, mapY |-> s.mapY,
     visX |-> s.visX, visY |-> s.visY, side |-> s.side, perp |-> perp]

\* the rest of castLevel for column x once the DDA loop has ended in state s
\* (lines 320-499), and the loop step x++ of asyncCastLevel
FinishColumn(l, s) ==
    LET x    == lt[l].x
        perp == perpWallDist(s)
    IN  \E lineHeight \in lineHeights(perp) :
          LET drawStart == drawStartOf(lineHeight, l)
              drawEnd   == drawStart + lineHeight
          IN  /\ lvls' = [lvls EXCEPT ![l][x] = Slice(drawStart, drawEnd, texNum(s, l))]
              /\ IF CastsFloor(l)
                 THEN /\ zBuffer' = [zBuffer EXCEPT ![x] = perp]
                      /\ zFrame' = [zFrame EXCEPT ![x] = frame]
                      /\ wg' = wg + 1
                      /\ ft' = [ft EXCEPT ![<<l, x>>] = [st |-> "spawned", drawEnd |-> drawEnd]]
                 ELSE UNCHANGED <<zBuffer, zFrame, wg, ft>>
              /\ lt' = [lt EXCEPT ![l] =
                          [ st |-> "run", x |-> x + 1,
                            dda |-> IF x + 1 < w THEN DDAStart(x + 1) ELSE s,
                            res |-> ColumnResult(x, s, perp) ]]

\* castLevel after its DDA loop, in the level goroutine l
LevelFinishColumn(l) ==
    /\ ~crashed /\ lt[l].st = "run" /\ lt[l].x < w /\ lt[l].dda.hit # 0
    /\ FinishColumn(l, lt[l].dda)
    /\ UNCHANGED <<world, pos, horWrites, spriteOrder, spriteDistance, spriteLvls,
                   semaphore, pc, spawn, st, frame, moves, call, crashed>>

\* one whole call castLevel(x, ...) of the level goroutine l: the DDA loop,
\* which touches no shared state, and the rest, as one step
LevelColumn(l) ==
    /\ ~crashed /\ lt[l].st = "run" /\ lt[l].x < w /\ lt[l].dda.steps = 0
    /\ FinishColumn(l, DDA(lt[l].dda, l))
    /\ UNCHANGED <<world, pos, horWrites, spriteOrder, spriteDistance, spriteLvls,
                   semaphore, pc, spawn, st, frame, moves, call, crashed>>

\* asyncCastLevel returns: the deferred wg.Done()
LevelDone(l) ==
    /\ ~crashed /\ lt[l].st = "run" /\ lt[l].x = w
    /\ lt' = [lt EXCEPT ![l].st = "done"]
    /\ wg' = wg - 1
    /\ UNCHANGED <<world, pos, zBuffer, zFrame, lvls, horWrites, spriteOrder,
                   spriteDistance, spriteLvls, semaphore, pc, spawn,
                   ft, st, frame, moves, call, crashed>>

\* a send on c.semaphore that never blocks
CanLockAlways == TRUE

\* a send on c.semaphore blocks while the channel is full
CanLock == semaphore < maxConcurrent

\* the floor goroutine t = <<level, x>> takes a permit (line 428)
FloorLock(t) ==
    /\ ~crashed /\ ft[t].st = "spawned" /\ CanLock
    /\ semaphore' = Acquire(semaphore)
    /\ ft' = [ft EXCEPT ![t].st = "locked"]
    /\ UNCHANGED <<world, pos, zBuffer, zFrame, lvls, horWrites, spriteOrder,
                   spriteDistance, spriteLvls, wg, pc, spawn,
                   lt, st, frame, moves, call, crashed>>

\* the floor goroutine's loop (lines 433-497): it writes HorBuffer at (x, y)
FloorBody(t) ==
    /\ ~crashed /\ ft[t].st = "locked"
    /\ horWrites' = horWrites \cup
                      {[x |-> t[2], y |-> y, by |-> t] : y \in FloorRows(ft[t].drawEnd)}
    /\ ft' = [ft EXCEPT ![t].st = "ran"]
    /\ UNCHANGED <<world, pos, zBuffer, zFrame, lvls, spriteOrder,
                   spriteDistance, spriteLvls, semaphore, wg, pc, spawn,
                   lt, st, frame, moves, call, crashed>>

\* the deferred <-c.semaphore (lines 429-431)
FloorUnlock(t) ==
    /\ ~crashed /\ ft[t].st = "ran"
    /\ semaphore' = Release(semaphore)
    /\ ft' = [ft EXCEPT ![t].st = "unlocked"]
    /\ UNCHANGED <<world, pos, zBuffer, zFrame, lvls, horWrites, spriteOrder,
                   spriteDistance, spriteLvls, wg, pc, spawn,
                   lt, st, frame, moves, call, crashed>>

\* the deferred wg.Done() (line 426)
FloorDone(t) ==
    /\ ~crashed /\ ft[t].st = "unlocked"
    /\ wg' = wg - 1
    /\ ft' = [ft EXCEPT ![t].st = "done"]
    /\ UNCHANGED <<world, pos, zBuffer, zFrame, lvls, horWrites, spriteOrder,
                   spriteDistance, spriteLvls, semaphore, pc, spawn,
                   lt, st, frame, moves, call, crashed>>

\* raycast's first wg.Wait() (line 179)
WaitLevels ==
    /\ ~crashed /\ pc = "waitLevels" /\ WaitReturns
    /\ pc' = "sort"
    /\ UNCHANGED <<world, pos, zBuffer, zFrame, lvls, horWrites, spriteOrder,
                   spriteDistance, spriteLvls, semaphore, wg, spawn,
                   lt, ft, st, frame, moves, call, crashed>>

\* lines 183-188: the arrays are refilled and sorted
SortSprites ==
    /\ ~crashed /\ pc = "sort"
    /\ LET r == combSort([i \in Slots |-> i], [i \in Slots |-> SqDist(i)], numSprites)
       IN  /\ spriteOrder' = r.order
           /\ spriteDistance' = r.dist
    /\ spawn' = 0
    /\ pc' = IF numSprites > 0 THEN "spawnSprites" ELSE "waitSprites"
    /\ UNCHANGED <<world, pos, zBuffer, zFrame, lvls, horWrites,
                   spriteLvls, semaphore, wg, lt, ft, st, frame, moves, call, crashed>>

\* go c.asyncCastSprite(i, &wg) (lines 191-194)
SpawnSprite ==
    /\ ~crashed /\ pc = "spawnSprites" /\ spawn < numSprites
    /\ wg' = wg + 1
    /\ st' = [st EXCEPT ![spawn] = [st |-> "spawned", drawEnd |-> 0]]
    /\ spawn' = spawn + 1
    /\ pc' = IF spawn + 1 < numSprites THEN "spawnSprites" ELSE "waitSprites"
    /\ UNCHANGED <<world, pos, zBuffer, zFrame, lvls, horWrites, spriteOrder,
                   spriteDistance, spriteLvls, semaphore, lt, ft, frame, moves, call, crashed>>

\* asyncCastSprite takes a permit (line 219)
SpriteLock(i) ==
    /\ ~crashed /\ st[i].st = "spawned" /\ CanLock
    /\ semaphore' = Acquire(semaphore)
    /\ st' = [st EXCEPT ![i].st = "locked"]
    /\ UNCHANGED <<world, pos, zBuffer, zFrame, lvls, horWrites, spriteOrder,
                   spriteDistance, spriteLvls, wg, pc, spawn,
                   lt, ft, frame, moves, call, crashed>>

\* c.castSprite(spriteNum) (line 224)
SpriteBody(i) ==
    /\ ~crashed /\ st[i].st = "locked"
    /\ spriteLvls' = [spriteLvls EXCEPT ![i] = castSprite(i)]
    /\ st' = [st EXCEPT ![i].st = "ran"]
    /\ UNCHANGED <<world, pos, zBuffer, zFrame, lvls, horWrites, spriteOrder,
                   spriteDistance, semaphore, wg, pc, spawn,
                   lt, ft, frame, moves, call, crashed>>

\* the deferred <-c.semaphore (lines 220-222)
SpriteUnlock(i) ==
    /\ ~crashed /\ st[i].st = "ran"
    /\ semaphore' = Release(semaphore)
    /\ st' = [st EXCEPT ![i].st = "unlocked"]
    /\ UNCHANGED <<world, pos, zBuffer, zFrame, lvls, horWrites, spriteOrder,
                   spriteDistance, spriteLvls, wg, pc, spawn,
                   lt, ft, frame, moves, call, crashed>>

\* the deferred wg.Done() (line 217)
SpriteDone(i) ==
    /\ ~crashed /\ st[i].st = "unlocked"
    /\ wg' = wg - 1
    /\ st' = [st EXCEPT ![i].st = "done"]
    /\ UNCHANGED <<world, pos, zBuffer, zFrame, lvls, horWrites, spriteOrder,
                   spriteDistance, spriteLvls, semaphore, pc, spawn,
                   lt, ft, frame, moves, call, crashed>>

\* raycast's second wg.Wait() (line 196) and its return
WaitSprites ==
    /\ ~crashed /\ pc = "waitSprites" /\ WaitReturns
    /\ pc' = "idle"
    /\ UNCHANGED <<world, pos, zBuffer, zFrame, lvls, horWrites, spriteOrder,
                   spriteDistance, spriteLvls, semaphore, wg, spawn,
                   lt, ft, st, frame, moves, call, crashed>>

\* Update: the floor buffer is cleared and the next raycast begins
Update ==
    /\ ~crashed /\ pc = "idle" /\ frame < MaxFrames
    /\ horWrites' = {}
    /\ frame' = frame + 1
    /\ pc' = "spawnLevels"
    /\ spawn' = 0
    /\ lt' = [l \in Levels |-> NoTask]
    /\ ft' = [t \in FloorTasks |-> NoJob]
    /\ st' = [i \in Slots |-> NoJob]
    /\ UNCHANGED <<world, pos, zBuffer, zFrame, lvls, spriteOrder,
                   spriteDistance, spriteLvls, semaphore, wg, moves, call, crashed>>

-----------------------------------------------------------------------------
(* The movement entry points.                                               *)

\* the package constant movementTPS and the field targetTPS NewCamera sets
movementTPS == 60

targetTPS == 60

\* getNormalSpeed
getNormalSpeed(speed) == RDiv(RMul(speed, RInt(movementTPS)), RInt(targetTPS))

\* the lookahead factor of lines 683-698
Lookahead == 12

\* the coordinate whose cell is tested: p + d * speed * 12
Ahead(p, d, speed) == RAdd(p, RMul(RMul(d, speed), RInt(Lookahead)))

\* c.worldMap[cx][cy] can be indexed
Indexable(cx, cy) == cx \in Cells /\ cy \in Cells

\* a second test that indexes the cell of c.pos.X as the call found it
SecondTestXBefore(oldX, newX) == Trunc(oldX)

\* the X cell the second test of Move and Strafe indexes (lines 686, 698):
\* the cell of c.pos.X as the first test left it
SecondTestX(oldX, newX) == Trunc(newX)

\* Move and Strafe, for the vector d (c.dir or c.plane) and the normalised
\* speed: the position they leave, and whether an index was out of range
Advance(d, speed) ==
    LET cx1  == Trunc(Ahead(pos.X, d.X, speed))
        cy1  == Trunc(pos.Y)
        ok1  == Indexable(cx1, cy1)
        newX == IF ok1 /\ worldMap(mapId, cx1, cy1) <= 0
                THEN RAdd(pos.X, RMul(d.X, speed)) ELSE pos.X
        cx2  == SecondTestX(pos.X, newX)
        cy2  == Trunc(Ahead(pos.Y, d.Y, speed))
        ok2  == ok1 /\ Indexable(cx2, cy2)
        newY == IF ok2 /\ worldMap(mapId, cx2, cy2) <= 0
                THEN RAdd(pos.Y, RMul(d.Y, speed)) ELSE pos.Y
    IN  [pos |-> Vec(newX, newY), crashed |-> ~ok2]

\* the package constant moveSpeed (0.06)
moveSpeed == Rat(6, 100)

\* the speeds the game loop passes: moveSpeed forward and back
Speeds == {moveSpeed, RNeg(moveSpeed)}

\* Move(mSpeed), between frames
Move(mSpeed) ==
    /\ ~crashed /\ pc = "idle" /\ moves < MaxMoves
    /\ LET r == Advance(dir, getNormalSpeed(mSpeed))
       IN  pos' = r.pos /\ crashed' = r.crashed
    /\ moves' = moves + 1
    /\ call' = [fn |-> "Move", speed |-> mSpeed, from |-> pos]
    /\ UNCHANGED <<world, zBuffer, zFrame, lvls, horWrites, spriteOrder,
                   spriteDistance, spriteLvls, semaphore, wg, pc, spawn,
                   lt, ft, st, frame>>

\* Strafe(sSpeed), between frames
Strafe(sSpeed) ==
    /\ ~crashed /\ pc = "idle" /\ moves < MaxMoves
    /\ LET r == Advance(plane, getNormalSpeed(sSpeed))
       IN  pos' = r.pos /\ crashed' = r.crashed
    /\ moves' = moves + 1
    /\ call' = [fn |-> "Strafe", speed |-> sSpeed, from |-> pos]
    /\ UNCHANGED <<world, zBuffer, zFrame, lvls, horWrites, spriteOrder,
                   spriteDistance, spriteLvls, semaphore, wg, pc, spawn,
                   lt, ft, st, frame>>

-----------------------------------------------------------------------------
(* The program: NewCamera, then frames (Update) with movement in between.   *)

\* the sprites the Map holds
SpriteLayouts ==
    { [i \in 0 .. 1 |-> IF i = 0 THEN Vec(Rat(43, 2), Rat(23, 2)) ELSE Vec(Rat(39, 2), Rat(23, 2))],
      [i \in 0 .. 1 |-> IF i = 0 THEN Vec(Rat(2247, 100), Rat(23, 2)) ELSE Vec(Rat(43, 2), RInt(12))] }

\* the fields NewCamera and its callers set that do not depend on the world
FreshFrame ==
    /\ zBuffer = [x \in Columns |-> RInt(0)]
    /\ zFrame = [x \in Columns |-> 0]
    /\ lvls = [l \in Levels |-> [x \in Columns |-> Slice(0, 0, 0)]]
    /\ horWrites = {}
    /\ spriteOrder = [i \in Slots |-> 0]
    /\ spriteDistance = [i \in Slots |-> RInt(0)]
    /\ spriteLvls = [i \in Slots |-> NilLevel]
    /\ semaphore = 0
    /\ ft = [t \in FloorTasks |-> NoJob]
    /\ st = [i \in Slots |-> NoJob]
    /\ frame = 1
    /\ moves = 0
    /\ call = NoCall
    /\ crashed = FALSE

\* the camera NewCamera places (lines 102-106)
StartCamera ==
    /\ pos = Vec(Rat(45, 2), Rat(23, 2))
    /\ dir = Vec(RInt(-1), RInt(0))
    /\ plane = Vec(RInt(0), Rat(66, 100))

\* NewCamera up to its call of raycast (lines 95-140)
Init ==
    /\ mapId = "room"
    /\ \E v \in Viewports : w = v.w /\ h = v.h
    /\ StartCamera
    /\ sprite \in SpriteLayouts
    /\ pc = "spawnLevels"
    /\ spawn = 0
    /\ wg = 0
    /\ lt = [l \in Levels |-> NoTask]
    /\ FreshFrame

Next ==
    \/ SpawnLevel
    \/ \E l \in Levels : LevelColumn(l)
    \/ \E l \in Levels : LevelDone(l)
    \/ \E t \in FloorTasks : FloorLock(t)
    \/ \E t \in FloorTasks : FloorBody(t)
    \/ \E t \in FloorTasks : FloorUnlock(t)
    \/ \E t \in FloorTasks : FloorDone(t)
    \/ WaitLevels
    \/ SortSprites
    \/ SpawnSprite
    \/ \E i \in Slots : SpriteLock(i)
    \/ \E i \in Slots : SpriteBody(i)
    \/ \E i \in Slots : SpriteUnlock(i)
    \/ \E i \in Slots : SpriteDone(i)
    \/ WaitSprites
    \/ Update
    \/ \E v \in Speeds : Move(v)
    \/ \E v \in Speeds : Strafe(v)

Spec == Init /\ [][Next]_vars

-----------------------------------------------------------------------------
(* The frame with the DDA loop of castLevel taken one iteration at a time,  *)
(* under a scheduler that keeps running some runnable goroutine.            *)

\* a step of raycast or of one of its goroutines
FrameStep ==
    \/ SpawnLevel
    \/ \E l \in Levels : LevelDDAStep(l)
    \/ \E l \in Levels : LevelFinishColumn(l)
    \/ \E l \in Levels : LevelDone(l)
    \/ \E t \in FloorTasks : FloorLock(t)
    \/ \E t \in FloorTasks : FloorBody(t)
    \/ \E t \in FloorTasks : FloorUnlock(t)
    \/ \E t \in FloorTasks : FloorDone(t)
    \/ WaitLevels
    \/ SortSprites
    \/ SpawnSprite
    \/ \E i \in Slots : SpriteLock(i)
    \/ \E i \in Slots : SpriteBody(i)
    \/ \E i \in Slots : SpriteUnlock(i)
    \/ \E i \in Slots : SpriteDone(i)
    \/ WaitSprites

NextFine ==
    \/ FrameStep
    \/ Update

FairSpec == Init /\ [][NextFine]_vars /\ WF_vars(FrameStep)

-----------------------------------------------------------------------------
(* The sprite sort on its own: raycast at line 183, for any list of sprites. *)

\* the longest sprite list sorted
MaxSortLen == 12

\* where the sprites stand: one unit and three units in front of the camera,
\* and, for short lists, at four different distances
SortPlaces == {Vec(Rat(43, 2), Rat(23, 2)), Vec(Rat(39, 2), Rat(23, 2))}

SortPlacesFine == SortPlaces \cup {Vec(Rat(41, 2), RInt(12)), Vec(RInt(22), RInt(10))}

ShortSortLen == 4

SortInputs ==
    UNION {[0 .. n - 1 -> SortPlaces] : n \in 0 .. MaxSortLen}
      \cup UNION {[0 .. n - 1 -> SortPlacesFine] : n \in 0 .. ShortSortLen}

\* castLevel(x, ...) of level l run to its end: what it leaves for column x
CastColumn(l, x) ==
    CHOOSE r \in
        { [ dda   |-> s,
            perp  |-> perpWallDist(s),
            slice |-> LET lineHeight == CHOOSE v \in lineHeights(perpWallDist(s)) : TRUE
                          drawStart  == drawStartOf(lineHeight, l)
                      IN  Slice(drawStart, drawStart + lineHeight, texNum(s, l)) ]
          : s \in {DDA(s0, l) : s0 \in {DDAStart(x)}} } : TRUE

\* the frame when raycast's first wg.Wait() has returned
LevelsCast ==
    \E cast \in {[t \in FloorTasks |-> CastColumn(t[1], t[2])]} :
        /\ zBuffer = [x \in Columns |-> cast[<<0, x>>].perp]
        /\ zFrame = [x \in Columns |-> 1]
        /\ lvls = [l \in Levels |-> [x \in Columns |-> cast[<<l, x>>].slice]]
        /\ horWrites = UNION {{[x |-> x, y |-> y, by |-> <<0, x>>] :
                                   y \in FloorRows(cast[<<0, x>>].slice.Max)} : x \in Columns}
        /\ lt = [l \in Levels |->
                   [st |-> "done", x |-> w, dda |-> cast[<<l, w - 1>>].dda,
                    res |-> ColumnResult(w - 1, cast[<<l, w - 1>>].dda, cast[<<l, w - 1>>].perp)]]
        /\ ft = [t \in FloorTasks |->
                   IF CastsFloor(t[1]) THEN [st |-> "done", drawEnd |-> cast[t].slice.Max]
                   ELSE NoJob]

InitSort ==
    /\ mapId = "room"
    /\ \E v \in Viewports : w = v.w /\ h = v.h
    /\ StartCamera
    /\ LevelsCast
    /\ pc = "sort"
    /\ sprite \in SortInputs
    /\ spriteOrder = [i \in Slots |-> 0]
    /\ spriteDistance = [i \in Slots |-> RInt(0)]
    /\ spriteLvls = [i \in Slots |-> NilLevel]
    /\ st = [i \in Slots |-> NoJob]
    /\ semaphore = 0 /\ wg = 0 /\ spawn = NumLevels
    /\ frame = 1 /\ moves = 0 /\ call = NoCall /\ crashed = FALSE

NextSort == SortSprites

SpecSort == InitSort /\ [][NextSort]_vars

-----------------------------------------------------------------------------
(* castLevel on its own: one level goroutine casting the columns of a       *)
(* camera placed anywhere in a world.                                       *)

\* cameras: the world, the viewport, c.pos, c.dir, c.plane
DDAScenes ==
    { [map |-> "single", view |-> [w |-> 320, h |-> 200],
       pos |-> Vec(Rat(9, 2), Rat(9, 2)), dir |-> Vec(RInt(1), RInt(0)),
       plane |-> Vec(RInt(0), Rat(66, 100))],
      [map |-> "east", view |-> [w |-> 320, h |-> 200],
       pos |-> Vec(Rat(9, 2), Rat(9, 2)), dir |-> Vec(RInt(1), RInt(0)),
       plane |-> Vec(RInt(0), Rat(66, 100))],
      [map |-> "open", view |-> [w |-> 3, h |-> 8],
       pos |-> Vec(Rat(3, 2), Rat(3, 2)), dir |-> Vec(RInt(-1), RInt(0)),
       plane |-> Vec(RInt(0), Rat(66, 100))],
      [map |-> "yard", view |-> [w |-> 3, h |-> 8],
       pos |-> Vec(Rat(5, 2), Rat(5, 2)), dir |-> Vec(RInt(-1), RInt(0)),
       plane |-> Vec(RInt(0), Rat(66, 100))],
      [map |-> "yard", view |-> [w |-> 3, h |-> 8],
       pos |-> Vec(Rat(5, 2), Rat(5, 2)), dir |-> Vec(RInt(0), RInt(-1)),
       plane |-> Vec(Rat(-66, 100), RInt(0))],
      [map |-> "room", view |-> [w |-> 3, h |-> 8],
       pos |-> Vec(Rat(45, 2), Rat(23, 2)), dir |-> Vec(RInt(-1), RInt(0)),
       plane |-> Vec(RInt(0), Rat(66, 100))] }

\* raycast has started the goroutines of levels 0 .. spawn-1
InitDDA ==
    /\ \E sc \in DDAScenes :
          /\ mapId = sc.map
          /\ w = sc.view.w /\ h = sc.view.h
          /\ pos = sc.pos /\ dir = sc.dir /\ plane = sc.plane
    /\ sprite = << >>
    /\ spawn \in 1 .. NumLevels
    /\ pc = IF spawn < NumLevels THEN "spawnLevels" ELSE "waitLevels"
    /\ wg = spawn
    /\ lt = [l \in Levels |->
               IF l < spawn THEN [st |-> "run", x |-> 0, dda |-> DDAStart(0), res |-> << >>]
               ELSE NoTask]
    /\ FreshFrame

\* the goroutine started last is the one that runs
NextDDA ==
    \/ LevelDDAStep(spawn - 1)
    \/ LevelFinishColumn(spawn - 1)

SpecDDA == InitDDA /\ [][NextDDA]_vars

-----------------------------------------------------------------------------
(* Move and Strafe on their own: a camera placed anywhere, between frames.  *)

\* 0.66 times the direction turned a quarter turn: the plane Rotate keeps
PlaneOf(d) == Vec(RMul(Rat(66, 100), d.Y), RMul(Rat(-66, 100), d.X))

MoveHeadings ==
    { Vec(RInt(-1), RInt(0)), Vec(Rat(6, 10), Rat(8, 10)),
      Vec(Rat(-8, 10), Rat(6, 10)), Vec(Rat(-6, 10), Rat(-8, 10)) }

MoveCoords == {Rat(9, 2), Rat(597, 100), Rat(603, 100), Rat(43, 10), Rat(47, 2)}

MoveMaps == {"single", "open"}

InitMove ==
    /\ mapId \in MoveMaps
    /\ \E v \in Viewports : w = v.w /\ h = v.h
    /\ \E x \in MoveCoords, y \in MoveCoords : pos = Vec(x, y) /\ worldMap(mapId, Trunc(x), Trunc(y)) = 0
    /\ dir \in MoveHeadings
    /\ plane = PlaneOf(dir)
    /\ sprite = << >>
    /\ pc = "idle"
    /\ spawn = 0
    /\ wg = 0
    /\ lt = [l \in Levels |-> NoTask]
    /\ FreshFrame

NextMove ==
    \/ \E v \in Speeds : Move(v)
    \/ \E v \in Speeds : Strafe(v)

SpecMove == InitMove /\ [][NextMove]_vars

-----------------------------------------------------------------------------
(* Properties of a frame, checked under Spec.                               *)

\* the floor and sprite goroutines that hold a permit of c.semaphore
FloorHolders == {t \in FloorTasks : ft[t].st \in {"locked", "ran"}}

SpriteHolders == {i \in Slots : st[i].st \in {"locked", "ran"}}

\* the level goroutines inside castLevel
LevelRunners == {l \in Levels : lt[l].st = "run"}

\* C1: once any sprite goroutine of a frame exists, every level goroutine of
\* that frame has returned, every floor goroutine it started has returned,
\* and zBuffer[x] has been written in this frame for every column x.
C1_LevelsBeforeSprites ==
    \A i \in Slots : st[i].st # "none" =>
        /\ \A l \in Levels : lt[l].st = "done"
        /\ \A x \in Columns : ft[<<0, x>>].st = "done"
        /\ \A x \in Columns : zFrame[x] = frame

\* a sprite goroutine of the second frame has read zBuffer and drawn columns
C1_SpriteReadsDepth ==
    \E i \in Slots : st[i].st = "ran" /\ frame = 2 /\ spriteLvls[i].cols # {}

\* C5 (as stated): for a sprite slot whose castSprite has run, no column of
\* the clipped box with transformY >= zBuffer[col] has a slice, and every
\* column of the box with 0 < transformY < zBuffer[col] has one.
C5_DepthTestDecides ==
    \A i \in Slots :
        (st[i].st \in {"ran", "unlocked", "done"} /\ pc \in {"spawnSprites", "waitSprites"}) =>
            \A col \in Stripes(i) :
                /\ RLeq(zBuffer[col], transformY(i)) => col \notin spriteLvls[i].cols
                /\ (RLess(RInt(0), transformY(i)) /\ RLess(transformY(i), zBuffer[col]))
                       => col \in spriteLvls[i].cols

\* C6: when raycast is about to return, spriteLvls[i] is nil exactly when no
\* column of the sprite in slot i passed the test of line 574, and a non-nil
\* spriteLvls[i] is a Level made by castSprite in this frame.
C6_NilIffNoColumn ==
    (pc = "waitSprites" /\ wg = 0) =>
        \A i \in Slots :
            /\ spriteLvls[i] = NilLevel <=> AcceptedCols(i) = {}
            /\ spriteLvls[i] # NilLevel => spriteLvls[i].alloc = frame

\* the second frame ends with one slot cleared and one slot drawn anew
C6_ClearedAndRedrawn ==
    /\ pc = "waitSprites" /\ wg = 0 /\ frame = 2
    /\ \E i, j \in Slots : spriteLvls[i] = NilLevel /\ spriteLvls[j].alloc = 2

\* C7 (as stated): the permits taken from c.semaphore are those of the level,
\* floor and sprite goroutines that are running their body.
C7_EveryTaskGated ==
    semaphore = Cardinality(LevelRunners) + Cardinality(FloorHolders) + Cardinality(SpriteHolders)

\* C7 (amended): the permits taken from c.semaphore are exactly those of the
\* floor and sprite goroutines between their acquire and their release; the
\* level goroutines run castLevel without holding one.
C7_FloorAndSpriteGated ==
    semaphore = Cardinality(FloorHolders) + Cardinality(SpriteHolders)

\* a level goroutine is casting columns while the gate is full
C7_LevelRunsAtFullGate ==
    \E l \in Levels : lt[l].st = "run" /\ lt[l].x < w /\ semaphore = maxConcurrent

\* C9: floor goroutines are started by the level-0 caster only; every pixel
\* of HorBuffer written in a frame lies in the writer's own column x, in a
\* row y with lvls[0][x].Max < y < h; and no pixel has two writers.
C9_FloorWritesDisjoint ==
    /\ \A t \in FloorTasks : ft[t].st # "none" => t[1] = 0
    /\ \A p \in horWrites :
          /\ p.by[2] = p.x
          /\ lvls[0][p.x].Max < p.y /\ p.y < h
    /\ \A p, q \in horWrites : (p.x = q.x /\ p.y = q.y) => p.by = q.by

\* two floor goroutines have written pixels while a third still holds a permit
C9_TwoWriters ==
    \E p, q \in horWrites : p.by # q.by /\ FloorHolders # {}

-----------------------------------------------------------------------------
(* Properties of the sprite sort, checked under SpecSort.                   *)

\* C2: once raycast has sorted, spriteOrder is a permutation of the sprite
\* indices, spriteDistance[i] is the squared distance of sprite
\* spriteOrder[i], and for all slots i < j the sprite in slot i is at least
\* as far from the camera as the sprite in slot j.
C2_SortedFarToNear ==
    pc \in {"spawnSprites", "waitSprites"} =>
        /\ {spriteOrder[i] : i \in Slots} = Slots
        /\ \A i \in Slots : spriteDistance[i] = SqDist(spriteOrder[i])
        /\ \A i, j \in Slots :
              i < j => RLeq(SqDist(spriteOrder[j]), SqDist(spriteOrder[i]))

\* a list long enough for the gap rule 9, 10 -> 11 has been reordered
C2_LongListSorted ==
    /\ pc \in {"spawnSprites", "waitSprites"}
    /\ numSprites >= 12
    /\ spriteOrder[0] # 0
    /\ SqDist(spriteOrder[0]) # SqDist(spriteOrder[numSprites - 1])

-----------------------------------------------------------------------------
(* Properties of castLevel, checked under SpecDDA.                          *)

\* the camera of the scenario: (4.5, 4.5), facing +X, 320 columns, in world m
Scene(m) ==
    /\ mapId = m /\ w = 320
    /\ pos = Vec(Rat(9, 2), Rat(9, 2))
    /\ dir = Vec(RInt(1), RInt(0))
    /\ plane = Vec(RInt(0), Rat(66, 100))

\* the level-0 goroutine has just cast the central column, x = 160
CentralCast == lt[0].st = "run" /\ lt[0].x = 161 /\ lt[0].res.x = 160

\* C3 (as stated): with the only wall at (5,5), the central column ends with
\* a hit at cell (5,5), side 0 and perpWallDist 0.5.
C3_HitsFiveFive ==
    (Scene("single") /\ CentralCast) =>
        /\ lt[0].res.hit # 0
        /\ lt[0].res.mapX = 5 /\ lt[0].res.mapY = 5
        /\ lt[0].res.side = 0
        /\ lt[0].res.perp = Rat(1, 2)

\* C3 (amended): with the only wall at (5,4) the central column ends with a
\* wall hit at cell (5,4), side 0, perpWallDist 0.5; with the only wall at
\* (5,5) the central ray runs along row 4, leaves the grid and ends as a
\* boundary hit clamped to cell (23,4), side 0, perpWallDist 18.5.
C3_HitsCellAhead ==
    /\ (Scene("east") /\ CentralCast) =>
          /\ lt[0].res.hit = 1
          /\ lt[0].res.mapX = 5 /\ lt[0].res.mapY = 4
          /\ lt[0].res.side = 0
          /\ lt[0].res.perp = Rat(1, 2)
    /\ (Scene("single") /\ CentralCast) =>
          /\ lt[0].res.hit = 2
          /\ lt[0].res.mapX = 23 /\ lt[0].res.mapY = 4
          /\ lt[0].res.side = 0
          /\ lt[0].res.perp = Rat(37, 2)

\* the central column has been cast with the wall at (5,4)
C3_CentralColumnCast == Scene("east") /\ CentralCast

\* C10 (as stated): the loop goes on only from an empty cell inside the
\* grid; a wall hit is at a cell with a positive grid value; a boundary hit
\* is reported only for a cell outside the 24x24 grid; and the cell indices
\* the caster keeps are always inside 0..23.
C10_BoundaryOnlyOutside ==
    \A l \in Levels : lt[l].st = "run" =>
        LET s == lt[l].dda
        IN  /\ (s.hit = 0 /\ s.steps > 0) =>
                  (Indexable(s.visX, s.visY) /\ rMap(l, s.visX, s.visY) = 0)
            /\ s.hit = 1 => (Indexable(s.visX, s.visY) /\ rMap(l, s.visX, s.visY) > 0)
            /\ s.hit = 2 => ~Indexable(s.visX, s.visY)
            /\ Indexable(s.mapX, s.mapY)

-----------------------------------------------------------------------------
(* Properties of Move and Strafe, checked under SpecMove.                   *)

\* the vector the last call moved along, and its normalised speed
CallVec == IF call.fn = "Move" THEN dir ELSE plane

CallSpeed == getNormalSpeed(call.speed)

\* the grid cell (cx, cy) is a wall
IsWall(cx, cy) == worldMap(mapId, cx, cy) > 0

-----------------------------------------------------------------------------
(* Progress of a frame, checked under FairSpec.                             *)

\* every goroutine raycast started has returned and every column is cast
AllReturned ==
    /\ \A l \in Levels : lt[l].st = "done" /\ lt[l].x = w /\ lt[l].dda.hit # 0
    /\ \A x \in Columns : ft[<<0, x>>].st = "done"
    /\ \A i \in Slots : st[i].st = "done"
    /\ wg = 0 /\ semaphore = 0

\* C8: every raycast that starts returns, and when it returns every DDA
\* loop has ended in a hit and every level, floor and sprite goroutine it
\* started has run to its end and given its permit back.
C8_FrameCompletes ==
    /\ (pc = "spawnLevels") ~> (pc = "idle")
    /\ [](pc = "idle" => AllReturned)

\* a floor goroutine waits at a full gate
C8_WaitsAtFullGate ==
    semaphore = maxConcurrent /\ \E t \in FloorTasks : ft[t].st = "spawned"

-----------------------------------------------------------------------------
(* The gate over a run of frames, checked under Spec.                       *)

\* C11: the goroutines holding a permit of c.semaphore are never more than
\* its capacity and are exactly the permits taken; every holder is still
\* counted by the WaitGroup, so a goroutine that has signalled completion
\* holds none; and the gate is empty whenever raycast has passed a barrier
\* or has returned.
C11_GateWithinCapacity ==
    /\ Cardinality(FloorHolders) + Cardinality(SpriteHolders) <= maxConcurrent
    /\ semaphore = Cardinality(FloorHolders) + Cardinality(SpriteHolders)
    /\ semaphore <= wg
    /\ \A t \in FloorTasks : ft[t].st = "done" => t \notin FloorHolders
    /\ \A i \in Slots : st[i].st = "done" => i \notin SpriteHolders
    /\ (pc = "sort" \/ pc = "idle") => semaphore = 0
    /\ (pc = "spawnSprites" /\ spawn = 0) => semaphore = 0

\* the gate is full while a goroutine has released its permit and has not
\* yet signalled completion
C11_FullGateAfterRelease ==
    /\ semaphore = maxConcurrent
    /\ \E t \in FloorTasks : ft[t].st = "unlocked"

====
